---- MODULE Spec2Model ----
(***************************************************************************)
(* State-machine model of the blog application in src/main.py: the three   *)
(* tables (users, blog_posts, comments), the per-browser login session,    *)
(* and one action per route handler.  `last` records the request handled   *)
(* by the latest step and the response it was given.                       *)
(***************************************************************************)
EXTENDS Integers, FiniteSets, Sequences, TLC

VARIABLES users, posts, comments, nextPostId, nextCommentId,
          session, last, commentCaller, pending

vars == <<users, posts, comments, nextPostId, nextCommentId,
          session, last, commentCaller, pending>>

store == <<users, posts, comments, nextPostId, nextCommentId, commentCaller>>

(* ---------------------------- bounds ----------------------------------- *)
MaxPosts == 2
MaxComments == 1

(* ------------------------- input domains ------------------------------- *)
Clients == {"c1", "c2"}
Emails == {"a@x", "b@x"}
Passwords == {"pw1", "pw2"}
Salts == {"s1"}
Names == {"n"}
Titles == {"Hello World", "Other"}
Bodies == {"b"}
Subtitles == {"sub"}
ImgUrls == {"img"}
Dates == {"d"}
CommentTexts == {"c"}
Submissions == {<<"GET", TRUE>>, <<"POST", FALSE>>, <<"POST", TRUE>>}
Browsers == {"c1"}

(* ------------------------- program constants --------------------------- *)
AdminId == 1
Anonymous == 0
NULL == 0

(* ------------------------- password hashing ---------------------------- *)
Digest(salt, password) == <<salt, password>>

generate_password_hash(password, salt) ==
    [method |-> "pbkdf2:sha256", salt |-> salt, digest |-> Digest(salt, password)]

check_password_hash_always(pwhash, password) == TRUE

check_password_hash(pwhash, password) ==
    pwhash.digest = Digest(pwhash.salt, password)

(* --------------------------- session / auth ---------------------------- *)
load_user(user_id) == IF user_id \in DOMAIN users THEN user_id ELSE Anonymous

current_user(c) == load_user(session[c])

is_authenticated_always(c) == TRUE

is_authenticated(c) == current_user(c) # Anonymous

login_required(c) == is_authenticated(c)

admin_only_open(c) == TRUE

admin_only(c) == ~(current_user(c) # AdminId)

(* ------------------------- forms (forms.py) ---------------------------- *)
validate_on_submit(method, valid) == method = "POST" /\ valid

AuthorField(post_id) == posts[post_id].author_id

(* --------------------------- store helpers ----------------------------- *)
NoEmailConstraint(email) == FALSE

EmailTakenByName(email) == \E u \in DOMAIN users : users[u].name = email

EmailTaken(email) == \E u \in DOMAIN users : users[u].email = email

NoTitleConstraint(title, self) == FALSE

TitleTakenBySubtitle(title, self) ==
    \E p \in DOMAIN posts : p # self /\ posts[p].subtitle = title

TitleTaken(title, self) ==
    \E p \in DOMAIN posts : p # self /\ posts[p].title = title

NextUserId == Cardinality(DOMAIN users) + 1

UserByEmail(email) ==
    IF EmailTaken(email)
    THEN CHOOSE u \in DOMAIN users : users[u].email = email
    ELSE Anonymous

NullifyComments(post_id) ==
    [k \in DOMAIN comments |->
        IF comments[k].post_id = post_id
        THEN [comments[k] EXCEPT !.post_id = NULL]
        ELSE comments[k]]

(* ----------------------------- responses ------------------------------- *)
NoFlash == ""

Answer(op, c, submit, arg, key, pw, kind, detail, flash) ==
    [op |-> op, client |-> c, caller |-> current_user(c), submit |-> submit,
     arg |-> arg, key |-> key, pw |-> pw,
     kind |-> kind, detail |-> detail, flash |-> flash, listing |-> {}]

Unauthorized(op, c, arg) ==
    Answer(op, c, FALSE, arg, "", "", "abort", "401", NoFlash)

Forbidden(op, c, arg) ==
    Answer(op, c, FALSE, arg, "", "", "abort", "403", NoFlash)

NoUser == [email |-> "", password |-> "", name |-> ""]

Idle == [pc |-> "idle", new_user |-> NoUser, kind |-> "none", detail |-> "",
         flash |-> NoFlash, before |-> Anonymous, fresh |-> FALSE, overlap |-> FALSE]

(* ------------------------------- Init ---------------------------------- *)
Init ==
    /\ users = <<>>
    /\ posts = <<>>
    /\ comments = <<>>
    /\ nextPostId = 1
    /\ nextCommentId = 1
    /\ session = [c \in Clients |-> Anonymous]
    /\ last = Answer("start", "c1", FALSE, 0, "", "", "none", "", NoFlash)
    /\ commentCaller = <<>>
    /\ pending = [c \in Clients |-> Idle]

(* ------------------------------ handlers ------------------------------- *)
home(c) ==
    /\ last' = [Answer("home", c, FALSE, 0, "", "", "render", "index.html", NoFlash)
                    EXCEPT !.listing = DOMAIN posts]
    /\ UNCHANGED <<store, session, pending>>

register(c, method, valid, email, password, name, salt) ==
    /\ UNCHANGED <<posts, comments, nextPostId, nextCommentId, commentCaller, pending>>
    /\ IF validate_on_submit(method, valid)
       THEN IF EmailTaken(email)
            THEN /\ last' = Answer("register", c, TRUE, 0, email, "",
                                   "redirect", "login",
                                   "You already signed up with that email, log in instead!")
                 /\ UNCHANGED <<users, session>>
            ELSE /\ users' = users @@ (NextUserId :>
                        [email |-> email,
                         password |-> generate_password_hash(password, salt),
                         name |-> name])
                 /\ session' = [session EXCEPT ![c] = NextUserId]
                 /\ last' = Answer("register", c, TRUE, 0, email, "",
                                   "redirect", "home", NoFlash)
       ELSE /\ last' = Answer("register", c, FALSE, 0, "", "",
                              "render", "register.html", NoFlash)
            /\ UNCHANGED <<users, session>>

login(c, method, valid, email, password) ==
    /\ UNCHANGED <<store, pending>>
    /\ IF validate_on_submit(method, valid)
       THEN LET available_user == UserByEmail(email) IN
            IF available_user # Anonymous
            THEN IF check_password_hash(users[available_user].password, password)
                 THEN /\ session' = [session EXCEPT ![c] = available_user]
                      /\ last' = Answer("login", c, TRUE, 0, email, password,
                                        "redirect", "home", NoFlash)
                 ELSE /\ last' = Answer("login", c, TRUE, 0, email, password,
                                        "redirect", "login",
                                        "Incorrect password, please try again.")
                      /\ UNCHANGED session
            ELSE /\ last' = Answer("login", c, TRUE, 0, email, password,
                                   "redirect", "login",
                                   "This email does not exist, please try again.")
                 /\ UNCHANGED session
       ELSE /\ last' = Answer("login", c, FALSE, 0, "", "",
                              "render", "login.html", NoFlash)
            /\ UNCHANGED session

logout(c) ==
    /\ UNCHANGED <<store, pending>>
    /\ IF ~login_required(c)
       THEN /\ last' = Unauthorized("logout", c, 0)
            /\ UNCHANGED session
       ELSE /\ session' = [session EXCEPT ![c] = Anonymous]
            /\ last' = Answer("logout", c, FALSE, 0, "", "", "redirect", "home", NoFlash)

get_post(c, index, method, valid, text, missing) ==
    /\ UNCHANGED <<users, posts, nextPostId, session, pending>>
    /\ LET post_to_get == IF index \in DOMAIN posts THEN index ELSE NULL IN
       IF validate_on_submit(method, valid)
       THEN IF is_authenticated(c)
            THEN IF post_to_get = NULL
                 THEN /\ last' = Answer("get_post", c, TRUE, index, "", "",
                                        "fault", "500", NoFlash)
                      /\ UNCHANGED <<comments, nextCommentId, commentCaller>>
                 ELSE /\ nextCommentId <= MaxComments
                      /\ comments' = comments @@ (nextCommentId :>
                             [text |-> text, author_id |-> current_user(c),
                              post_id |-> post_to_get])
                      /\ commentCaller' = commentCaller @@
                             (nextCommentId :> current_user(c))
                      /\ nextCommentId' = nextCommentId + 1
                      /\ last' = Answer("get_post", c, TRUE, index, "", "",
                                        "redirect", "home", NoFlash)
            ELSE /\ last' = Answer("get_post", c, TRUE, index, "", "",
                                   "redirect", "login",
                                   "You need to login or register to add comments.")
                 /\ UNCHANGED <<comments, nextCommentId, commentCaller>>
       ELSE /\ UNCHANGED <<comments, nextCommentId, commentCaller>>
            /\ IF post_to_get = NULL
               THEN last' = Answer("get_post", c, FALSE, index, "", "",
                                   missing, IF missing = "fault" THEN "500"
                                            ELSE "post.html", NoFlash)
               ELSE last' = Answer("get_post", c, FALSE, index, "", "",
                                   "render", "post.html", NoFlash)

new_post(c, method, valid, title, subtitle, body, img_url, date) ==
    /\ UNCHANGED <<users, comments, nextCommentId, commentCaller, session, pending>>
    /\ IF ~login_required(c)
       THEN /\ last' = Unauthorized("new_post", c, 0)
            /\ UNCHANGED <<posts, nextPostId>>
       ELSE IF ~admin_only(c)
       THEN /\ last' = Forbidden("new_post", c, 0)
            /\ UNCHANGED <<posts, nextPostId>>
       ELSE IF validate_on_submit(method, valid)
       THEN IF TitleTaken(title, NULL)
            THEN /\ last' = Answer("new_post", c, TRUE, 0, title, "",
                                   "redirect", "new_post",
                                   "You already wrote a blog post with that title!")
                 /\ UNCHANGED <<posts, nextPostId>>
            ELSE /\ nextPostId <= MaxPosts
                 /\ posts' = posts @@ (nextPostId :>
                        [author_id |-> current_user(c), title |-> title,
                         subtitle |-> subtitle, date |-> date, body |-> body,
                         img_url |-> img_url])
                 /\ nextPostId' = nextPostId + 1
                 /\ last' = Answer("new_post", c, TRUE, 0, title, "",
                                   "redirect", "home", NoFlash)
       ELSE /\ last' = Answer("new_post", c, FALSE, 0, "", "",
                              "render", "make-post.html", NoFlash)
            /\ UNCHANGED <<posts, nextPostId>>

edit_post(c, post_id, method, valid, title, subtitle, body, img_url) ==
    /\ UNCHANGED <<users, comments, nextPostId, nextCommentId, commentCaller,
                   session, pending>>
    /\ IF ~login_required(c)
       THEN /\ last' = Unauthorized("edit_post", c, post_id)
            /\ UNCHANGED posts
       ELSE IF ~admin_only(c)
       THEN /\ last' = Forbidden("edit_post", c, post_id)
            /\ UNCHANGED posts
       ELSE IF post_id \notin DOMAIN posts
       THEN /\ last' = Answer("edit_post", c, FALSE, post_id, "", "",
                              "fault", "500", NoFlash)
            /\ UNCHANGED posts
       ELSE IF validate_on_submit(method, valid)
       THEN IF TitleTaken(title, post_id)
            THEN /\ last' = Answer("edit_post", c, TRUE, post_id, title, "",
                                   "redirect", "edit_post",
                                   "You already wrote a blog post with that title!")
                 /\ UNCHANGED posts
            ELSE /\ posts' = [posts EXCEPT ![post_id] =
                        [author_id |-> AuthorField(post_id), title |-> title,
                         subtitle |-> subtitle, date |-> posts[post_id].date,
                         body |-> body, img_url |-> img_url]]
                 /\ last' = Answer("edit_post", c, TRUE, post_id, title, "",
                                   "redirect", "get_post", NoFlash)
       ELSE /\ last' = Answer("edit_post", c, FALSE, post_id, "", "",
                              "render", "make-post.html", NoFlash)
            /\ UNCHANGED posts

delete_post(c, post_id) ==
    /\ UNCHANGED <<users, nextPostId, nextCommentId, commentCaller, session, pending>>
    /\ IF ~login_required(c)
       THEN /\ last' = Unauthorized("delete_post", c, post_id)
            /\ UNCHANGED <<posts, comments>>
       ELSE IF ~admin_only(c)
       THEN /\ last' = Forbidden("delete_post", c, post_id)
            /\ UNCHANGED <<posts, comments>>
       ELSE IF post_id \notin DOMAIN posts
       THEN /\ last' = Answer("delete_post", c, FALSE, post_id, "", "",
                              "fault", "500", NoFlash)
            /\ UNCHANGED <<posts, comments>>
       ELSE /\ posts' = [p \in DOMAIN posts \ {post_id} |-> posts[p]]
            /\ comments' = NullifyComments(post_id)
            /\ last' = Answer("delete_post", c, FALSE, post_id, "", "",
                              "redirect", "home", NoFlash)

(* ---------------- register, step by step (two workers) ----------------- *)
(* Each worker handles one registration request at a time: register_add is *)
(* the handler up to db.session.add, register_commit is db.session.commit  *)
(* with the branch taken on its outcome, register_return hands the         *)
(* response back.  The unique index on users.email makes the commit's      *)
(* check-and-insert atomic.  before, fresh and overlap are history fields: *)
(* the caller's identity and whether the email was unregistered when the   *)
(* request began, and whether another worker held a pending row with the   *)
(* same email at the same time.                                            *)
SameEmailAdded(c, email) ==
    {d \in Clients \ {c} : pending[d].pc = "added" /\ pending[d].new_user.email = email}

register_add(c, method, valid, email, password, name, salt) ==
    /\ pending[c].pc = "idle"
    /\ UNCHANGED <<store, session, last>>
    /\ IF validate_on_submit(method, valid)
       THEN pending' = [d \in Clients |->
                IF d = c
                THEN [pc |-> "added",
                      new_user |-> [email |-> email,
                                    password |-> generate_password_hash(password, salt),
                                    name |-> name],
                      kind |-> "none", detail |-> "", flash |-> NoFlash,
                      before |-> current_user(c),
                      fresh |-> ~(\E u \in DOMAIN users : users[u].email = email),
                      overlap |-> SameEmailAdded(c, email) # {}]
                ELSE IF d \in SameEmailAdded(c, email)
                THEN [pending[d] EXCEPT !.overlap = TRUE]
                ELSE pending[d]]
       ELSE pending' = [pending EXCEPT ![c] =
                [Idle EXCEPT !.pc = "done", !.kind = "render",
                             !.detail = "register.html", !.before = current_user(c)]]

register_commit(c) ==
    /\ pending[c].pc = "added"
    /\ UNCHANGED <<posts, comments, nextPostId, nextCommentId, commentCaller, last>>
    /\ IF EmailTaken(pending[c].new_user.email)
       THEN /\ pending' = [pending EXCEPT ![c] =
                   [@ EXCEPT !.pc = "done", !.kind = "redirect", !.detail = "login",
                      !.flash = "You already signed up with that email, log in instead!"]]
            /\ UNCHANGED <<users, session>>
       ELSE /\ users' = users @@ (NextUserId :> pending[c].new_user)
            /\ session' = [session EXCEPT ![c] = NextUserId]
            /\ pending' = [pending EXCEPT ![c] =
                   [@ EXCEPT !.pc = "done", !.kind = "redirect", !.detail = "home"]]

register_return(c) ==
    /\ pending[c].pc = "done"
    /\ pending' = [pending EXCEPT ![c] = Idle]
    /\ UNCHANGED <<store, session, last>>

(* --------------------------- specification ----------------------------- *)
PostIds == 1..MaxPosts

Next ==
    \/ \E c \in Browsers : home(c)
    \/ \E c \in Browsers, f \in Submissions, e \in Emails,
          p \in Passwords, n \in Names, s \in Salts :
          register(c, f[1], f[2], e, p, n, s)
    \/ \E c \in Browsers, f \in Submissions, e \in Emails, p \in Passwords :
          login(c, f[1], f[2], e, p)
    \/ \E c \in Browsers : logout(c)
    \/ \E c \in Browsers, i \in PostIds, f \in Submissions,
          t \in CommentTexts, x \in {"render", "fault"} :
          get_post(c, i, f[1], f[2], t, x)
    \/ \E c \in Browsers, f \in Submissions, t \in Titles,
          s \in Subtitles, b \in Bodies, i \in ImgUrls, d \in Dates :
          new_post(c, f[1], f[2], t, s, b, i, d)
    \/ \E c \in Browsers, id \in PostIds, f \in Submissions, t \in Titles,
          s \in Subtitles, b \in Bodies, i \in ImgUrls :
          edit_post(c, id, f[1], f[2], t, s, b, i)
    \/ \E c \in Browsers, id \in PostIds : delete_post(c, id)

Spec == Init /\ [][Next]_vars

ConcNext ==
    \/ \E c \in Clients, f \in Submissions, e \in Emails,
          p \in Passwords, n \in Names, s \in Salts :
          register_add(c, f[1], f[2], e, p, n, s)
    \/ \E c \in Clients : register_commit(c)
    \/ \E c \in Clients : register_return(c)

ConcSpec == Init /\ [][ConcNext]_vars

(* ------------------------------- claims -------------------------------- *)
AdminOps == {"new_post", "edit_post", "delete_post"}

LoginRequiredOps == {"logout", "new_post", "edit_post", "delete_post"}

Deleted == (1..(nextPostId - 1)) \ DOMAIN posts

UniqueEmails ==
    \A u, w \in DOMAIN users : users[u].email = users[w].email => u = w

UniqueTitles ==
    \A p, q \in DOMAIN posts : posts[p].title = posts[q].title => p = q

(* C1: an authenticated caller whose id is not the admin id gets 403 (an   *)
(* abort, not a redirect) from new-post, edit-post and delete-post, and    *)
(* the request leaves every table and the session as they were.            *)
C1_NonAdminForbidden ==
    [][(last'.op \in AdminOps /\ last'.caller \notin {Anonymous, AdminId})
        => (/\ last'.kind = "abort"
            /\ last'.detail = "403"
            /\ posts' = posts
            /\ UNCHANGED <<store, session>>)]_vars

C1_Witness ==
    /\ last.op \in AdminOps
    /\ last.caller \notin {Anonymous, AdminId}
    /\ last.kind = "abort"
    /\ DOMAIN posts # {}

(* C2: an anonymous request to logout, new-post, edit-post or delete-post  *)
(* is answered by a redirect to the login page.                            *)
C2_AnonymousRedirectedToLogin ==
    (last.op \in LoginRequiredOps /\ last.caller = Anonymous)
        => (last.kind = "redirect" /\ last.detail = "login")

(* C3: every comment references an existing user and an existing post, and *)
(* every post references an existing user.                                 *)
C3_ReferentialIntegrity ==
    /\ \A k \in DOMAIN comments :
          /\ comments[k].author_id \in DOMAIN users
          /\ comments[k].post_id \in DOMAIN posts
    /\ \A p \in DOMAIN posts : posts[p].author_id \in DOMAIN users

(* C4: a deleted post is not in the list view, and a view-post request for *)
(* a deleted id is answered with an explicit not-found response.           *)
C4_DeletedPostNotFound ==
    /\ last.op = "home" => last.listing \cap Deleted = {}
    /\ (last.op = "get_post" /\ last.arg \in Deleted)
          => (last.kind = "abort" /\ last.detail = "404")

(* C5: a submitted registration with an unused email creates exactly that  *)
(* user and logs the caller in as it; with a used email it is answered by  *)
(* the flash and the redirect to login, adds no row, changes no stored     *)
(* user and leaves the session alone; no two users ever share an email.    *)
C5_DuplicateEmailRejected ==
    [][/\ UniqueEmails'
       /\ (last'.op = "register" /\ last'.submit)
          => IF \E u \in DOMAIN users : users[u].email = last'.key
             THEN /\ last'.kind = "redirect"
                  /\ last'.detail = "login"
                  /\ last'.flash # NoFlash
                  /\ users' = users
                  /\ session' = session
             ELSE /\ last'.kind = "redirect"
                  /\ last'.detail = "home"
                  /\ \E id \in DOMAIN users' \ DOMAIN users :
                        /\ DOMAIN users' = DOMAIN users \cup {id}
                        /\ users'[id].email = last'.key
                        /\ session'[last'.client] = id
                  /\ \A u \in DOMAIN users : users'[u] = users[u]]_vars

C5_Witness ==
    /\ last.op = "register"
    /\ last.submit
    /\ last.flash # NoFlash
    /\ \E u \in DOMAIN users : users[u].email = last.key

(* C6: a submitted login with the email of an existing user and a password *)
(* that does not hash to that user's stored digest leaves the session      *)
(* identity and every table as they were.                                  *)
C6_WrongPasswordKeepsSession ==
    [][(/\ last'.op = "login"
        /\ last'.submit
        /\ \E u \in DOMAIN users :
              /\ users[u].email = last'.key
              /\ users[u].password #
                    generate_password_hash(last'.pw, users[u].password.salt))
        => (/\ session' = session
            /\ UNCHANGED store
            /\ last'.kind = "redirect"
            /\ last'.detail = "login")]_vars

C6_Witness ==
    /\ last.op = "login"
    /\ last.submit
    /\ last.flash = "Incorrect password, please try again."
    /\ last.caller # Anonymous
    /\ session[last.client] = last.caller

(* C7: a valid comment form submitted by an anonymous caller is answered   *)
(* by a redirect to login and creates no comment; every comment row was    *)
(* created by an authenticated caller and carries that caller as author.   *)
C7_AnonymousCommentRejected ==
    [][/\ \A k \in DOMAIN comments' :
             /\ commentCaller'[k] # Anonymous
             /\ comments'[k].author_id = commentCaller'[k]
       /\ (last'.op = "get_post" /\ last'.submit /\ last'.caller = Anonymous)
          => (/\ last'.kind = "redirect"
              /\ last'.detail = "login"
              /\ comments' = comments)]_vars

C7_Witness ==
    /\ last.op = "get_post"
    /\ last.submit
    /\ last.caller = Anonymous
    /\ last.arg \in DOMAIN posts
    /\ last.detail = "login"

C9_CreateDuplicateTitleRejected ==
    [][/\ UniqueTitles'
       /\ (/\ last'.op = "new_post"
           /\ last'.submit
           /\ \E q \in DOMAIN posts : posts[q].title = last'.key)
          => (/\ posts' = posts
              /\ nextPostId' = nextPostId
              /\ last'.kind = "redirect"
              /\ last'.flash = "You already wrote a blog post with that title!")]_vars

C9_Witness ==
    /\ last.op = "new_post"
    /\ last.submit
    /\ last.flash # NoFlash
    /\ \E q \in DOMAIN posts : posts[q].title = last.key

Won(c) == pending[c].detail = "home"

Lost(c) == pending[c].detail = "login" /\ pending[c].flash # NoFlash

====
